---- MODULE Spec2Model ----
(***************************************************************************)
(* hoshi (src/main.go): browse the starred repositories of a GitHub user.  *)
(*                                                                         *)
(* Strings are sequences of byte codes (Go compares strings bytewise and   *)
(* len() counts bytes); timestamps are integers (seconds).                 *)
(*                                                                         *)
(* Four specifications share the module:                                   *)
(*   SpecSort   sortItemOrder applied to bounded input lists               *)
(*   SpecTrunc  the description truncation of run applied to one record    *)
(*   SpecFuzzy  the searcher closure of run applied to bounded inputs      *)
(*   Spec       run as a whole: flags, paging, width, truncation, sort,    *)
(*              selector, browser                                          *)
(***************************************************************************)
EXTENDS Integers, Sequences, FiniteSets, TLC

VARIABLES
    \* ---- SpecSort
    sPc,        \* "idle" | "in" | "out"
    sStars,     \* the slice handed to sortItemOrder
    sOrder,     \* opt.Order
    sReverse,   \* opt.Reverse
    sBuild,     \* which sort.Slice the build links
    sOut,       \* the slice sortItemOrder returned
    \* ---- SpecTrunc
    tPc,        \* "idle" | "in" | "done" | "panic"
    tWidth,     \* terminalWidth
    tDesc,      \* stars[i].Description before the step
    tOut,       \* stars[i].Description after the step
    \* ---- SpecFuzzy
    fPc,        \* "idle" | "typing"
    fNames,     \* FullName of each candidate
    fInput,     \* the query typed so far
    fVisible,   \* indices the searcher accepts for fInput
    fPrev,      \* indices the searcher accepted before the last key
    \* ---- Spec (run)
    pc,         \* position in run
    opt,        \* Option
    remote,     \* what GET .../starred?page=n answers, per page
    page,       \* loop variable i of the aggregation loop
    requested,  \* page numbers requested so far, in order
    stars,      \* the accumulated / sorted list
    width,      \* terminalWidth
    ti,         \* loop variable i of the truncation loop
    sel,        \* selection state of the prompt
    opened,     \* URLs handed to browser.OpenURL, in order
    exit        \* "none" | "0" | "1" | "2" (return of run) | "fatal" | "panic"

sortVars  == <<sPc, sStars, sOrder, sReverse, sBuild, sOut>>
truncVars == <<tPc, tWidth, tDesc, tOut>>
fuzzyVars == <<fPc, fNames, fInput, fVisible, fPrev>>
runVars   == <<pc, opt, remote, page, requested, stars, width, ti, sel, opened, exit>>
vars      == <<sortVars, truncVars, fuzzyVars, runVars>>

\* The selection state before the prompt runs.  key is the last of Confirm
\* and Cancel pressed; index and err are what prompt.Run returns.
NoSel == [query |-> <<>>, searching |-> FALSE, visible |-> <<>>, cursor |-> 0,
          key |-> "none", index |-> 0, err |-> FALSE]

SortIdle  == sPc = "idle" /\ sStars = <<>> /\ sOrder = "" /\ sReverse = FALSE
             /\ sBuild = "" /\ sOut = <<>>
TruncIdle == tPc = "idle" /\ tWidth = 0 /\ tDesc = <<>> /\ tOut = <<>>
FuzzyIdle == fPc = "idle" /\ fNames = <<>> /\ fInput = <<>> /\ fVisible = {}
             /\ fPrev = {}
RunIdle   == pc = "idle" /\ opt = [Order |-> "", Reverse |-> FALSE, Version |-> FALSE]
             /\ remote = <<>> /\ page = 0 /\ requested = <<>> /\ stars = <<>>
             /\ width = 0 /\ ti = 0 /\ sel = NoSel /\ opened = <<>> /\ exit = "none"

(***************************************************************************)
(* Strings                                                                 *)
(***************************************************************************)

\* strings.ToLower on one ASCII byte: 'A'..'Z' (65..90) map to 'a'..'z'.
LowerByte(c) == IF c >= 65 /\ c <= 90 THEN c + 32 ELSE c

ToLower(s) == [k \in 1..Len(s) |-> LowerByte(s[k])]

\* Go's < on strings: bytewise lexicographic, a proper prefix is smaller.
RECURSIVE StrLess(_, _)
StrLess(a, b) ==
    IF b = <<>> THEN FALSE
    ELSE IF a = <<>> THEN TRUE
    ELSE IF Head(a) # Head(b) THEN Head(a) < Head(b)
    ELSE StrLess(Tail(a), Tail(b))

\* strings.Replace(s, " ", "", -1): every space (32) removed.
RECURSIVE StripSpaces(_)
StripSpaces(s) ==
    IF s = <<>> THEN <<>>
    ELSE IF Head(s) = 32 THEN StripSpaces(Tail(s))
    ELSE <<Head(s)>> \o StripSpaces(Tail(s))

(***************************************************************************)
(* sortItemOrder                                                           *)
(***************************************************************************)

Swap(s, i, j) == [s EXCEPT ![i] = s[j], ![j] = s[i]]

\* The closure `reversed`: for i := len/2 - 1; i >= 0; i-- swaps i and
\* len-1-i.  Positions here are 1-based: i runs from len/2 down to 1.
RECURSIVE ReversedFrom(_, _)
ReversedFrom(s, i) ==
    IF i < 1 THEN s
    ELSE ReversedFrom(Swap(s, i, Len(s) + 1 - i), i - 1)

\* The loop started one position too far to the right.
reversedOffByOne(s) == ReversedFrom(s, Len(s) \div 2 + (IF Len(s) > 1 THEN 1 ELSE 0))

reversed(s) == ReversedFrom(s, Len(s) \div 2)

\* The created-at comparator written with Before instead of After.
LessAscendingCreated(order, a, b) ==
    CASE order = "author-name"     -> StrLess(ToLower(a.Login), ToLower(b.Login))
      [] order = "created-at"      -> a.CreatedAt < b.CreatedAt
      [] order = "repository-name" -> StrLess(ToLower(a.Name), ToLower(b.Name))
      [] order = "updated-at"      -> a.UpdatedAt > b.UpdatedAt
      [] OTHER                     -> FALSE

\* The less closures handed to sort.Slice, one per case of the switch.
Less(order, a, b) ==
    CASE order = "author-name"     -> StrLess(ToLower(a.Login), ToLower(b.Login))
      [] order = "created-at"      -> a.CreatedAt > b.CreatedAt
      [] order = "repository-name" -> StrLess(ToLower(a.Name), ToLower(b.Name))
      [] order = "updated-at"      -> a.UpdatedAt > b.UpdatedAt
      [] OTHER                     -> FALSE

\* The cases of the switch that call sort.Slice.
SortedOrders == {"author-name", "created-at", "repository-name", "updated-at"}

\* insertionSort of package sort: for i := a+1; i < b; i++
\*   for j := i; j > a && less(j, j-1); j-- { swap(j, j-1) }
RECURSIVE SiftDown(_, _, _)
SiftDown(s, j, order) ==
    IF j > 1 /\ Less(order, s[j], s[j - 1])
    THEN SiftDown(Swap(s, j, j - 1), j - 1, order)
    ELSE s

RECURSIVE InsertionFrom(_, _, _)
InsertionFrom(s, i, order) ==
    IF i > Len(s) THEN s
    ELSE InsertionFrom(SiftDown(s, i, order), i + 1, order)

insertionSort(s, order) == InsertionFrom(s, 2, order)

\* The ShellSort pass with gap 6 that quickSort of Go <= 1.18 runs before
\* insertionSort on a range of at most 12 elements:
\*   for i := a + 6; i < b; i++ { if less(i, i-6) { swap(i, i-6) } }
RECURSIVE ShellPassFrom(_, _, _)
ShellPassFrom(s, i, order) ==
    IF i > Len(s) THEN s
    ELSE ShellPassFrom(IF Less(order, s[i], s[i - 6]) THEN Swap(s, i, i - 6) ELSE s,
                       i + 1, order)

\* sort.Slice is documented as not stable; which permutation it returns is
\* the build's choice.  For a slice of at most 12 elements:
\*   "pdq"   Go >= 1.19: insertion sort alone;
\*   "quick" Go <= 1.18: ShellSort pass with gap 6, then insertion sort.
Builds == {"pdq", "quick"}

SortSlice(s, order, build) ==
    IF build = "quick"
    THEN insertionSort(ShellPassFrom(s, 7, order), order)
    ELSE insertionSort(s, order)

sortItemOrder(s, order, reverse, build) ==
    LET sorted == IF order \in SortedOrders THEN SortSlice(s, order, build) ELSE s
    IN  IF reverse THEN reversed(sorted) ELSE sorted

(***************************************************************************)
(* SpecSort: sortItemOrder on bounded inputs                               *)
(***************************************************************************)

MaxSortLen == 7

\* Owner handles "bob", "Bob", "al"; display names "Zed", "alpha", "zed".
\* Every key has both a tie between different records and a strict order.
SortKinds ==
    { [Login |-> <<98, 111, 98>>, Name |-> <<90, 101, 100>>,
       CreatedAt |-> 1, UpdatedAt |-> 2],
      [Login |-> <<66, 111, 98>>, Name |-> <<97, 108, 112, 104, 97>>,
       CreatedAt |-> 2, UpdatedAt |-> 2],
      [Login |-> <<97, 108>>, Name |-> <<122, 101, 100>>,
       CreatedAt |-> 1, UpdatedAt |-> 1] }

\* opt.Order: the five keys of the switch and one it does not know.
Orders == {"added-at", "author-name", "created-at", "repository-name",
           "updated-at", "stars"}

\* A list whose k-th record has ID k (the ID is unique within a session).
WithIDs(kinds) ==
    [k \in 1..Len(kinds) |->
        [ID |-> k, Login |-> kinds[k].Login, Name |-> kinds[k].Name,
         CreatedAt |-> kinds[k].CreatedAt, UpdatedAt |-> kinds[k].UpdatedAt]]

SortInputs == UNION { {WithIDs(q) : q \in [1..n -> SortKinds]} : n \in 0..MaxSortLen }

InitSort ==
    /\ sPc = "in"
    /\ sStars \in SortInputs
    /\ sOrder \in Orders
    /\ sBuild \in Builds
    /\ sReverse = FALSE
    /\ sOut = <<>>
    /\ TruncIdle /\ FuzzyIdle /\ RunIdle

\* stars = sortItemOrder(stars, opt.Order, opt.Reverse)
CallSort ==
    /\ sPc = "in"
    /\ \E r \in BOOLEAN :
          /\ sReverse' = r
          /\ sOut' = sortItemOrder(sStars, sOrder, r, sBuild)
    /\ sPc' = "out"
    /\ UNCHANGED <<sStars, sOrder, sBuild, truncVars, fuzzyVars, runVars>>

NextSort == CallSort

SpecSort == InitSort /\ [][NextSort]_vars

(***************************************************************************)
(* Claims about sortItemOrder (checked under SpecSort)                     *)
(***************************************************************************)

\* The end-to-end reverse of a sequence.
Rev(s) == [k \in 1..Len(s) |-> s[Len(s) + 1 - k]]

\* Position of the record with the given ID in a list.
PosOf(s, id) == CHOOSE k \in 1..Len(s) : s[k].ID = id

IsPermutation(out, in) ==
    /\ Len(out) = Len(in)
    /\ \A k \in 1..Len(in) : \E m \in 1..Len(out) : out[m] = in[k]
    /\ \A m, n \in 1..Len(out) : out[m].ID = out[n].ID => m = n

\* The key the spec gives each order, and when two records tie on it.
SameKey(order, a, b) ==
    CASE order = "author-name"     -> ToLower(a.Login) = ToLower(b.Login)
      [] order = "created-at"      -> a.CreatedAt = b.CreatedAt
      [] order = "repository-name" -> ToLower(a.Name) = ToLower(b.Name)
      [] order = "updated-at"      -> a.UpdatedAt = b.UpdatedAt
      [] OTHER                     -> FALSE

\* a may stand directly before b under the order the spec gives the key.
InOrder(order, a, b) ==
    CASE order = "author-name"     -> ~StrLess(ToLower(b.Login), ToLower(a.Login))
      [] order = "created-at"      -> a.CreatedAt >= b.CreatedAt
      [] order = "repository-name" -> ~StrLess(ToLower(b.Name), ToLower(a.Name))
      [] order = "updated-at"      -> a.UpdatedAt >= b.UpdatedAt
      [] OTHER                     -> TRUE

\* C3 (sort stability): with reverse unset and one of the four sorting keys,
\* any two records whose keys are equal keep in the output the relative
\* order they had in the input.
C3_SortIsStable ==
    (sPc = "out" /\ ~sReverse /\ sOrder \in SortedOrders) =>
        \A i, j \in 1..Len(sStars) :
            (i < j /\ SameKey(sOrder, sStars[i], sStars[j])) =>
                PosOf(sOut, sStars[i].ID) < PosOf(sOut, sStars[j].ID)

\* C6 (reversal composition): with the reversal flag set, sortItemOrder
\* returns the end-to-end reverse of what it returns with the flag unset,
\* for every key; for added-at that is the reverse of the fetch order, and
\* reversing it once more restores the fetch order.
C6_ReverseComposes ==
    (sPc = "out" /\ sReverse) =>
        /\ sOut = Rev(sortItemOrder(sStars, sOrder, FALSE, sBuild))
        /\ sOrder = "added-at" =>
              /\ sOut = Rev(sStars)
              /\ sortItemOrder(sOut, sOrder, TRUE, sBuild) = sStars

\* C6 witness: a reversed sort of at least three records under a sorting
\* key whose result differs from both the input and the unreversed result.
C6_Witness ==
    /\ sPc = "out" /\ sReverse /\ sOrder = "author-name"
    /\ Len(sStars) >= 3
    /\ sOut # sStars
    /\ sOut # sortItemOrder(sStars, sOrder, FALSE, sBuild)
    /\ sOut[1].Login = <<98, 111, 98>>
    /\ sStars[1].Login = <<97, 108>>

\* C9 (comparator correctness): with reverse unset the output is a
\* permutation of the input; for author-name and repository-name every
\* adjacent pair is non-decreasing on the lower-cased handle / name, for
\* created-at and updated-at non-increasing on the timestamp; for added-at
\* and an unrecognized key the output is the input.
C9_SortedPermutation ==
    (sPc = "out" /\ ~sReverse) =>
        /\ IsPermutation(sOut, sStars)
        /\ \A k \in 1..(Len(sOut) - 1) : InOrder(sOrder, sOut[k], sOut[k + 1])
        /\ sOrder \notin SortedOrders => sOut = sStars

\* C9 witness: a created-at sort that had to move records: the input starts
\* with the oldest record and the output with the newest.
C9_Witness ==
    /\ sPc = "out" /\ ~sReverse /\ sOrder = "created-at"
    /\ Len(sStars) >= 3
    /\ sStars[1].CreatedAt = 1 /\ sOut[1].CreatedAt = 2
    /\ sOut # sStars

(***************************************************************************)
(* The description truncation of run                                       *)
(***************************************************************************)

\* int(terminalWidth)-22: the columns reserved for the row's decorations.
Margin == 22

\* int(terminalWidth)-25: where the description is cut.
Cut == 25

\* "..."
Ellipsis == <<46, 46, 46>>

\* A Go slice expression s[:k] panics unless 0 <= k <= len(s).
SlicePanics(s, k) == k < 0 \/ k > Len(s)

\* Whether the body of the truncation loop panics on one description.
truncatePanics(d, w) == Len(d) > w - Margin /\ SlicePanics(d, w - Cut)

\* The description the body of the truncation loop leaves behind when it
\* does not panic.
truncateDescription(d, w) ==
    IF Len(d) > w - Margin THEN SubSeq(d, 1, w - Cut) \o Ellipsis ELSE d

(***************************************************************************)
(* SpecTrunc: the truncation step on one record                            *)
(***************************************************************************)

MaxWidth == 28

MaxDescLen == 5

\* Descriptions over 'a' and '.'.
Descriptions == UNION { [1..n -> {97, 46}] : n \in 0..MaxDescLen }

InitTrunc ==
    /\ tPc = "in"
    /\ tWidth \in 1..MaxWidth
    /\ tDesc \in Descriptions
    /\ tOut = <<>>
    /\ SortIdle /\ FuzzyIdle /\ RunIdle

\* One iteration of the loop of run that shortens stars[i].Description.
TruncateOne ==
    /\ tPc = "in"
    /\ IF truncatePanics(tDesc, tWidth)
       THEN tPc' = "panic" /\ tOut' = tDesc
       ELSE tPc' = "done" /\ tOut' = truncateDescription(tDesc, tWidth)
    /\ UNCHANGED <<tWidth, tDesc, sortVars, fuzzyVars, runVars>>

NextTrunc == TruncateOne

SpecTrunc == InitTrunc /\ [][NextTrunc]_vars

\* C4 (renderer totality): the truncation step completes without failing
\* for every positive width and every description length, widths below the
\* 22-column margin and widths 22..24 included.
C4_TruncationNeverFails == tPc # "panic"

\* C5 (truncation boundary): for width W and a description of length L, the
\* step yields the first W - 25 characters followed by the ellipsis when
\* L > W - 22, of length at most W - 22, and the description unchanged when
\* L <= W - 22.
C5_TruncationBoundary ==
    (tPc # "in") =>
        /\ tPc = "done"
        /\ Len(tDesc) > tWidth - Margin =>
              /\ tOut = SubSeq(tDesc, 1, tWidth - Cut) \o Ellipsis
              /\ Len(tOut) <= tWidth - Margin
        /\ Len(tDesc) <= tWidth - Margin => tOut = tDesc

(***************************************************************************)
(* The searcher closure of run                                             *)
(***************************************************************************)

\* Whether rune r occurs in s.
Occurs(s, r) == \E k \in 1..Len(s) : s[k] = r

\* s with everything up to and including the first occurrence of r removed.
RECURSIVE AfterFirst(_, _)
AfterFirst(s, r) ==
    IF s = <<>> THEN <<>>
    ELSE IF Head(s) = r THEN Tail(s)
    ELSE AfterFirst(Tail(s), r)

\* The Outer loop of fuzzy.Match: each rune of source is looked up in what is
\* left of target, which is then cut behind the rune found.
RECURSIVE MatchLoop(_, _)
MatchLoop(source, target) ==
    IF source = <<>> THEN TRUE
    ELSE IF ~Occurs(target, Head(source)) THEN FALSE
    ELSE MatchLoop(Tail(source), AfterFirst(target, Head(source)))

\* fuzzy.Match(source, target) of github.com/lithammer/fuzzysearch.
Match(source, target) ==
    IF Len(target) - Len(source) < 0 THEN FALSE
    ELSE IF Len(target) = Len(source) /\ source = target THEN TRUE
    ELSE MatchLoop(source, target)

\* The arguments of fuzzy.Match the wrong way round.
searcherSwapped(input, fullName) ==
    Match(StripSpaces(ToLower(fullName)), StripSpaces(ToLower(input)))

\* searcher := func(input string, index int) bool, on stars[index].FullName.
searcher(input, fullName) ==
    Match(StripSpaces(ToLower(input)), StripSpaces(ToLower(fullName)))

\* The indices the prompt shows for a query: those the searcher accepts.
Visible(names, input) == {k \in 1..Len(names) : searcher(input, names[k])}

(***************************************************************************)
(* SpecFuzzy: the searcher on bounded names and queries                    *)
(***************************************************************************)

MaxNameLen == 2

MaxCands == 2

MaxInputLen == 2

\* 'O', ' ' and 'b': a letter ToLower changes, a space, a letter it keeps.
Alphabet == {79, 32, 98}

FullNames == UNION { [1..n -> Alphabet] : n \in 0..MaxNameLen }

InitFuzzy ==
    /\ fPc = "typing"
    /\ fNames \in UNION { [1..n -> FullNames] : n \in 0..MaxCands }
    /\ fInput = <<>>
    /\ fVisible = 1..Len(fNames)
    /\ fPrev = 1..Len(fNames)
    /\ SortIdle /\ TruncIdle /\ RunIdle

\* A character typed in search mode: the query grows by it and the prompt
\* asks the searcher about every candidate.
TypeChar ==
    /\ fPc = "typing"
    /\ Len(fInput) < MaxInputLen
    /\ \E c \in Alphabet :
          /\ fInput' = Append(fInput, c)
          /\ fVisible' = Visible(fNames, fInput')
    /\ fPrev' = fVisible
    /\ UNCHANGED <<fPc, fNames, sortVars, truncVars, runVars>>

NextFuzzy == TypeChar

SpecFuzzy == InitFuzzy /\ [][NextFuzzy]_vars

\* Whether q is a subsequence of n (not necessarily contiguous).
RECURSIVE IsSubsequence(_, _)
IsSubsequence(q, n) ==
    IF q = <<>> THEN TRUE
    ELSE IF n = <<>> THEN FALSE
    ELSE IF Head(q) = Head(n) THEN IsSubsequence(Tail(q), Tail(n))
    ELSE IsSubsequence(q, Tail(n))

\* C7 (fuzzy-match monotonicity): the searcher accepts a candidate exactly
\* when the lower-cased, space-stripped query is a subsequence of the
\* lower-cased, space-stripped full name; the candidates visible after one
\* more character are a subset of those visible before it; the empty query
\* makes every candidate visible.
C7_FuzzyMonotone ==
    (fPc = "typing") =>
        /\ fVisible \subseteq fPrev
        /\ \A k \in 1..Len(fNames) :
              /\ searcher(<<>>, fNames[k])
              /\ searcher(fInput, fNames[k]) <=>
                    IsSubsequence(StripSpaces(ToLower(fInput)),
                                  StripSpaces(ToLower(fNames[k])))
              /\ (fInput # <<>> /\ k \in fVisible) =>
                    searcher(SubSeq(fInput, 1, Len(fInput) - 1), fNames[k])

\* C7 witness: a second character has narrowed a list of two candidates to
\* one of them, matched across a case difference and a space.
C7_Witness ==
    /\ fPc = "typing"
    /\ Len(fInput) = 2 /\ Len(fNames) = 2
    /\ fPrev = {1, 2} /\ fVisible = {2}
    /\ fNames[2] = <<79, 98>> /\ fInput = <<79, 98>>

(***************************************************************************)
(* run                                                                     *)
(***************************************************************************)

MaxPages == 3

MaxPageLen == 2

MaxQueryLen == 1

\* promptui.Select{Size: 10}: the rows of the visible window.
Size == 10

\* The starred repositories of the session: bob/Zed, Bob/alpha, al/zed, with
\* descriptions of 5, 9 and 0 bytes.
Pool ==
    { [ID |-> 1, Login |-> <<98, 111, 98>>, Name |-> <<90, 101, 100>>,
       FullName |-> <<98, 111, 98, 47, 90, 101, 100>>,
       Description |-> <<97, 97, 97, 97, 97>>,
       HTMLURL |-> "https://github.com/bob/Zed",
       CreatedAt |-> 1, UpdatedAt |-> 2],
      [ID |-> 2, Login |-> <<66, 111, 98>>, Name |-> <<97, 108, 112, 104, 97>>,
       FullName |-> <<66, 111, 98, 47, 97, 108, 112, 104, 97>>,
       Description |-> <<97, 97, 97, 97, 97, 97, 97, 97, 97>>,
       HTMLURL |-> "https://github.com/Bob/alpha",
       CreatedAt |-> 2, UpdatedAt |-> 2],
      [ID |-> 3, Login |-> <<97, 108>>, Name |-> <<122, 101, 100>>,
       FullName |-> <<97, 108, 47, 122, 101, 100>>,
       Description |-> <<>>,
       HTMLURL |-> "https://github.com/al/zed",
       CreatedAt |-> 1, UpdatedAt |-> 1] }

\* The set of the elements of a sequence.
Range(s) == {s[k] : k \in 1..Len(s)}

\* Pages: lists of different repositories.
PageLists ==
    UNION { {q \in [1..n -> Pool] : \A i, j \in 1..n : q[i] = q[j] => i = j}
            : n \in 0..MaxPageLen }

\* What one GET can come to:
\*   "ok"         a JSON array of stars (empty: no more pages)
\*   "transport"  http.Get returns an error
\*   "unreadable" ioutil.ReadAll fails, the body read is cut short
\*   "notarray"   the payload is JSON but no array of stars (an error object)
PageOutcomes ==
    {[kind |-> "ok", items |-> q] : q \in PageLists}
    \cup {[kind |-> k, items |-> <<>>] : k \in {"transport", "unreadable", "notarray"}}

\* The remote collection: no repository is on two pages.
Remotes ==
    {r \in [1..MaxPages -> PageOutcomes] :
        \A i, j \in 1..MaxPages :
            i # j => Range(r[i].items) \cap Range(r[j].items) = {}}

\* The answer to page k; the collection is finite, pages past it are empty.
RemoteAt(r, k) == IF k \in 1..MaxPages THEN r[k] ELSE [kind |-> "ok", items |-> <<>>]

\* getStarsPage: log.Fatal on a transport error (fatal); otherwise the
\* error of ReadAll is dropped and the error of json.Unmarshal is dropped,
\* so a body that does not decode leaves `stars` nil; nil when len is 0.
getStarsPage(outcome) ==
    IF outcome.kind = "transport" THEN [fatal |-> TRUE, stars |-> <<>>]
    ELSE IF outcome.kind = "ok" THEN [fatal |-> FALSE, stars |-> outcome.items]
    ELSE [fatal |-> FALSE, stars |-> <<>>]

\* The new page put in front of the accumulated list.
appendPageInFront(acc, s) == s \o acc

\* stars = append(stars, s...)
appendPage(acc, s) == acc \o s

\* Terminal widths the run may see: one below 25 columns and one above.
Widths == {24, 30}

\* The truncation loop that runs one index too far.
truncLoopRunsOneMore(i, n) == i <= n + 1

\* for i := 0; i < len(stars); i++   (i is 1-based here)
truncLoopRuns(i, n) == i <= n

Init ==
    /\ pc = "parse"
    /\ opt = [Order |-> "", Reverse |-> FALSE, Version |-> FALSE]
    /\ remote \in Remotes
    /\ page = 1
    /\ requested = <<>>
    /\ stars = <<>>
    /\ width = 0
    /\ ti = 0
    /\ sel = NoSel
    /\ opened = <<>>
    /\ exit = "none"
    /\ SortIdle /\ TruncIdle /\ FuzzyIdle

Exit(code) == pc' = "exited" /\ exit' = code

\* flags.ParseArgs: a parse failure returns 2; --version prints and returns 0.
ParseArgs ==
    /\ pc = "parse"
    /\ \/ /\ Exit("2")
          /\ UNCHANGED opt
       \/ \E o \in Orders, r \in BOOLEAN, v \in BOOLEAN :
             /\ opt' = [Order |-> o, Reverse |-> r, Version |-> v]
             /\ IF v THEN Exit("0") ELSE pc' = "user" /\ UNCHANGED exit
    /\ UNCHANGED <<remote, page, requested, stars, width, ti, sel, opened,
                   sortVars, truncVars, fuzzyVars>>

\* gitconfig.GithubUser: log.Fatal when there is no user.
GithubUser ==
    /\ pc = "user"
    /\ \/ Exit("fatal")
       \/ pc' = "fetch" /\ UNCHANGED exit
    /\ UNCHANGED <<opt, remote, page, requested, stars, width, ti, sel, opened,
                   sortVars, truncVars, fuzzyVars>>

\* One iteration of the aggregation loop: getStarsPage(user, i), then
\* append and i++, or break.
FetchPage ==
    /\ pc = "fetch"
    /\ requested' = Append(requested, page)
    /\ LET s == getStarsPage(RemoteAt(remote, page))
       IN  IF s.fatal
           THEN Exit("fatal") /\ UNCHANGED <<stars, page>>
           ELSE IF s.stars # <<>>
           THEN /\ stars' = appendPage(stars, s.stars)
                /\ page' = page + 1
                /\ UNCHANGED <<pc, exit>>
           ELSE /\ pc' = "width"
                /\ UNCHANGED <<stars, page, exit>>
    /\ UNCHANGED <<opt, remote, width, ti, sel, opened,
                   sortVars, truncVars, fuzzyVars>>

\* terminal.Width: an error returns 1.
TerminalWidth ==
    /\ pc = "width"
    /\ \/ Exit("1") /\ UNCHANGED <<width, ti>>
       \/ \E w \in Widths :
             /\ width' = w
             /\ ti' = 1
             /\ pc' = "truncate"
             /\ UNCHANGED exit
    /\ UNCHANGED <<opt, remote, page, requested, stars, sel, opened,
                   sortVars, truncVars, fuzzyVars>>

\* One test of the truncation loop and, when it passes, one body: an index
\* outside the list or a slice bound outside the description panics.
TruncateLoop ==
    /\ pc = "truncate"
    /\ IF ~truncLoopRuns(ti, Len(stars))
       THEN pc' = "sort" /\ UNCHANGED <<stars, ti, exit>>
       ELSE IF ti \notin 1..Len(stars) \/ truncatePanics(stars[ti].Description, width)
       THEN Exit("panic") /\ UNCHANGED <<stars, ti>>
       ELSE /\ stars' = [stars EXCEPT ![ti].Description =
                            truncateDescription(stars[ti].Description, width)]
            /\ ti' = ti + 1
            /\ UNCHANGED <<pc, exit>>
    /\ UNCHANGED <<opt, remote, page, requested, width, sel, opened,
                   sortVars, truncVars, fuzzyVars>>

\* The positions of the list the searcher accepts for a query, in list order.
VisibleSeq(list, query) ==
    LET Shown(k) == searcher(query, list[k].FullName)
    IN  SelectSeq([k \in 1..Len(list) |-> k], Shown)

\* stars = sortItemOrder(stars, opt.Order, opt.Reverse); then prompt.Run()
\* starts in search mode with an empty query and the whole list visible.
SortAndPrompt ==
    /\ pc = "sort"
    /\ \E b \in Builds : stars' = sortItemOrder(stars, opt.Order, opt.Reverse, b)
    /\ sel' = [NoSel EXCEPT !.searching = TRUE,
                            !.visible = [k \in 1..Len(stars) |-> k],
                            !.cursor = IF stars = <<>> THEN 0 ELSE 1]
    /\ pc' = "select"
    /\ UNCHANGED <<opt, remote, page, requested, width, ti, opened, exit,
                   sortVars, truncVars, fuzzyVars>>

\* The character the user types into the query: 'z'.
QueryKeys == {122}

SelUnchanged == UNCHANGED <<opt, remote, page, requested, stars, width, ti, opened,
                            exit, sortVars, truncVars, fuzzyVars>>

\* The highlight after the visible list was recomputed: its first entry.
FirstOf(visible) == IF visible = <<>> THEN 0 ELSE 1

Min(a, b) == IF a < b THEN a ELSE b

Max(a, b) == IF a > b THEN a ELSE b

\* A typed character in search mode.
KeyChar ==
    /\ pc = "select" /\ sel.searching /\ Len(sel.query) < MaxQueryLen
    /\ \E c \in QueryKeys :
          LET q == Append(sel.query, c)
              v == VisibleSeq(stars, q)
          IN  sel' = [sel EXCEPT !.query = q, !.visible = v,
                                 !.cursor = FirstOf(v)]
    /\ UNCHANGED pc /\ SelUnchanged

\* Backspace in search mode.
KeyBackspace ==
    /\ pc = "select" /\ sel.searching /\ sel.query # <<>>
    /\ LET q == SubSeq(sel.query, 1, Len(sel.query) - 1)
           v == VisibleSeq(stars, q)
       IN  sel' = [sel EXCEPT !.query = q, !.visible = v,
                              !.cursor = FirstOf(v)]
    /\ UNCHANGED pc /\ SelUnchanged

\* The "?" key: search mode on or off, query and visible list kept.
KeyToggleSearch ==
    /\ pc = "select"
    /\ sel' = [sel EXCEPT !.searching = ~sel.searching]
    /\ UNCHANGED pc /\ SelUnchanged

\* Next, Previous, Page-forward and Page-backward: the highlight moves
\* inside the visible list and stops at its ends.
KeyMove ==
    /\ pc = "select"
    /\ \E d \in {1, -1, Size, -Size} :
          sel' = [sel EXCEPT
                     !.cursor = IF sel.visible = <<>> THEN 0
                                ELSE Max(1, Min(Len(sel.visible), sel.cursor + d))]
    /\ UNCHANGED pc /\ SelUnchanged

\* Confirm: with nothing highlighted the prompt keeps waiting; otherwise it
\* returns the position of the highlighted record in the list it was given.
KeyConfirm ==
    /\ pc = "select"
    /\ IF sel.cursor = 0
       THEN sel' = [sel EXCEPT !.key = "confirm"] /\ UNCHANGED pc
       ELSE /\ sel' = [sel EXCEPT !.key = "confirm",
                                  !.index = sel.visible[sel.cursor], !.err = FALSE]
            /\ pc' = "returned"
    /\ SelUnchanged

\* Cancel (interrupt): the prompt returns an error and index 0 of Go, the
\* first position.
KeyCancel ==
    /\ pc = "select"
    /\ sel' = [sel EXCEPT !.key = "cancel", !.index = 1, !.err = TRUE]
    /\ pc' = "returned"
    /\ SelUnchanged

\* The error of prompt.Run dropped: the URL is opened whatever it returned.
AfterPromptDropsErr ==
    /\ pc = "returned"
    /\ IF sel.index \notin 1..Len(stars)
       THEN Exit("panic") /\ UNCHANGED opened
       ELSE Exit("0") /\ opened' = Append(opened, stars[sel.index].HTMLURL)
    /\ UNCHANGED <<opt, remote, page, requested, stars, width, ti, sel,
                   sortVars, truncVars, fuzzyVars>>

\* index, _, err := prompt.Run(); log.Fatal on err;
\* browser.OpenURL(stars[index].HTMLURL); return 0
AfterPrompt ==
    /\ pc = "returned"
    /\ IF sel.err
       THEN Exit("fatal") /\ UNCHANGED opened
       ELSE IF sel.index \notin 1..Len(stars)
       THEN Exit("panic") /\ UNCHANGED opened
       ELSE Exit("0") /\ opened' = Append(opened, stars[sel.index].HTMLURL)
    /\ UNCHANGED <<opt, remote, page, requested, stars, width, ti, sel,
                   sortVars, truncVars, fuzzyVars>>

Next ==
    \/ ParseArgs
    \/ GithubUser
    \/ FetchPage
    \/ TerminalWidth
    \/ TruncateLoop
    \/ SortAndPrompt
    \/ KeyChar
    \/ KeyBackspace
    \/ KeyToggleSearch
    \/ KeyMove
    \/ KeyConfirm
    \/ KeyCancel
    \/ AfterPrompt

Spec == Init /\ [][Next]_vars

(***************************************************************************)
(* Claims about run (checked under Spec)                                   *)
(***************************************************************************)

OkNonEmpty(o) == o.kind = "ok" /\ o.items # <<>>

OkEmpty(o) == o.kind = "ok" /\ o.items = <<>>

\* The first page of the remote collection that is not a non-empty page.
FirstStop(r) ==
    CHOOSE n \in 1..(MaxPages + 1) :
        /\ ~OkNonEmpty(RemoteAt(r, n))
        /\ \A k \in 1..(n - 1) : OkNonEmpty(RemoteAt(r, k))

\* The concatenation of pages 1..n in page order.
RECURSIVE ConcatPages(_, _)
ConcatPages(r, n) ==
    IF n < 1 THEN <<>> ELSE ConcatPages(r, n - 1) \o RemoteAt(r, n).items

\* The aggregation loop has been left by its break.
LoopLeft == pc \in {"width", "truncate", "sort", "select", "returned"}
            \/ (pc = "exited" /\ requested # <<>>)

\* C1 (pagination termination): when pages 1..N-1 are non-empty and page N
\* is empty, the loop requests pages 1, 2, ..., N in that order, each once,
\* never page N+1, and the accumulated list is the concatenation of pages
\* 1..N-1 in page order.
C1_Pagination ==
    OkEmpty(RemoteAt(remote, FirstStop(remote))) =>
        LET N == FirstStop(remote)
        IN  /\ Len(requested) <= N
            /\ \A k \in 1..Len(requested) : requested[k] = k
            /\ pc = "fetch" => stars = ConcatPages(remote, Len(requested))
            /\ LoopLeft => Len(requested) = N
            /\ pc = "width" => stars = ConcatPages(remote, N - 1)

\* C1 witness: two non-empty pages, then an empty one, were fetched and
\* three records accumulated.
C1_Witness ==
    /\ pc = "width"
    /\ FirstStop(remote) = 3
    /\ OkEmpty(RemoteAt(remote, 3))
    /\ Len(remote[1].items) = 1 /\ Len(remote[2].items) = 2
    /\ requested = <<1, 2, 3>>
    /\ Len(stars) = 3

\* Some page requested so far suffered a transport or a decode failure.
FetchFailed ==
    \E k \in 1..Len(requested) : RemoteAt(remote, requested[k]).kind # "ok"

\* C2 (fail-loud retrieval): once the fetch of a page has suffered a
\* transport or a decode failure the run has ended fatally; it never goes on
\* to the width, truncation, sorting, the selector or the browser.
C2_FailLoud ==
    FetchFailed => (pc = "exited" /\ exit = "fatal" /\ opened = <<>>)

\* Aggregation has ended with zero records.
EmptyRun == LoopLeft /\ stars = <<>>

\* C8 (empty candidate list): a run whose aggregation yields zero records
\* does not crash in truncation, sorting or the selector; there Confirm
\* changes nothing and emits no record, and Cancel ends the run with no
\* result.
C8_EmptyList ==
    /\ [](EmptyRun =>
            /\ exit # "panic"
            /\ opened = <<>>
            /\ sel.cursor = 0 /\ sel.visible = <<>>
            /\ sel.key = "confirm" => (pc = "select" /\ exit = "none")
            /\ sel.key = "cancel" =>
                  (sel.err /\ pc \in {"returned", "exited"}
                   /\ exit \in {"none", "fatal"}))
    /\ [][(EmptyRun /\ pc = "select" /\ sel.key # "confirm" /\ sel'.key = "confirm") =>
            (pc' = "select" /\ sel' = [sel EXCEPT !.key = "confirm"]
             /\ UNCHANGED <<stars, opened, exit>>)]_vars

\* C8 witness: the selector runs on an empty list that went through
\* truncation and a reversed sort, and Confirm has been pressed.
C8_Witness ==
    /\ EmptyRun /\ pc = "select"
    /\ requested = <<1>> /\ width = 24
    /\ opt.Order = "author-name" /\ opt.Reverse
    /\ sel.key = "confirm"

\* C10 (browser emission): at most one URL is handed to the browser, only
\* after the selector ended by Confirm, and it is the page URL of the record
\* highlighted in the sorted list; a run ended by Cancel, --version, a
\* flag-parse failure (2) or a terminal-width failure (1) hands none.
C10_BrowserEmission ==
    /\ Len(opened) <= 1
    /\ opened # <<>> =>
          /\ sel.key = "confirm" /\ ~sel.err
          /\ sel.cursor \in 1..Len(sel.visible)
          /\ opened[1] = stars[sel.visible[sel.cursor]].HTMLURL
          /\ pc = "exited" /\ exit = "0"
    /\ (sel.key = "cancel" \/ opt.Version \/ exit \in {"1", "2"}) => opened = <<>>

\* C10 witness: Confirm on the second entry of a filtered, sorted list whose
\* position in the whole list is not its position in the visible list.
C10_Witness ==
    /\ opened # <<>>
    /\ opt.Order \in SortedOrders
    /\ sel.query # <<>>
    /\ sel.cursor = 2
    /\ sel.visible[sel.cursor] # sel.cursor

====
